---- MODULE Spec2Model ----
(***************************************************************************)
(* The statistics registry of ptlsim/stats/statsBuilder.h: the             *)
(* StatsBuilder singleton and its offset cursor, the Statable tree, the    *)
(* StatObj<T> and StatArray<T,size> descriptors, and the Stats arenas they *)
(* resolve against.  Arena memory is modelled byte by byte, so that a      *)
(* pointer computation in the code is an address computation in the model. *)
(***************************************************************************)
EXTENDS Integers, Sequences, FiniteSets, TLC

VARIABLES stat_offset, nodes, objs, mem, wild, fault, nwrites, last, routed

vars == <<stat_offset, nodes, objs, mem, wild, fault, nwrites, last, routed>>

----------------------------------------------------------------------------
(* Program constants and the bounds of the model.                          *)

\* #define STATS_SIZE 1024*10
STATS_SIZE == 1024 * 10

\* at most this many Statable nodes, the builder's rootNode included
MaxNodes == 3
\* at most this many StatObj / StatArray descriptors
MaxDescs == 2
\* at most this many operations that store into an arena
MaxWrites == 2

\* a null Stats*
NULL == "NULL"
\* the Stats objects handed out by StatsBuilder::get_new_stats()
Arenas == {"X", "Y"}
\* the template parameter `size` of the StatArray instantiations modelled
ArrSizes == {2}
\* sizeof(T) of the instantiations modelled: W8 and W16
TSizes == {1, 2}
\* the values of T the callers store through a reference
Vals == {1, 2}
\* the literal operands of the binary operators
Lits == {2}
\* the indices handed to StatArray::operator[]
Indices == {0 - 1, 0, 1, 2}
\* get_offset(size) called directly: reservations that end near STATS_SIZE
RawSizes == {STATS_SIZE - 5, STATS_SIZE - 4}
\* the `offset` member of a descriptor whose constructor has not assigned it
NoOffset == 0 - 1

----------------------------------------------------------------------------
(* Arena memory: W8 mem[STATS_SIZE], zero-filled, kept as the function of  *)
(* its non-zero bytes.                                                     *)

ZeroMem == [x \in {} |-> 0]

InArena(o) == o >= 0 /\ o < STATS_SIZE

Byte(m, o) == IF o \in DOMAIN m THEN m[o] ELSE 0

Store(m, o, b) ==
    IF b = 0
    THEN [x \in (DOMAIN m) \ {o} |-> m[x]]
    ELSE [x \in (DOMAIN m) \cup {o} |-> IF x = o THEN b ELSE m[x]]

\* 2^(8*n), the number of values of an n-byte unsigned type
RECURSIVE Pow256(_)
Pow256(n) == IF n = 0 THEN 1 ELSE 256 * Pow256(n - 1)

\* *(T*)(base + o) read: little-endian, sizeof(T) = n
RECURSIVE ReadT(_, _, _)
ReadT(m, o, n) ==
    IF n = 0 THEN 0 ELSE Byte(m, o) + 256 * ReadT(m, o + 1, n - 1)

\* *(T*)(base + o) = v, the bytes that fall inside the arena
RECURSIVE WriteT(_, _, _, _)
WriteT(m, o, n, v) ==
    IF n = 0 THEN m
    ELSE WriteT(IF InArena(o) THEN Store(m, o, v % 256) ELSE m,
                o + 1, n - 1, v \div 256)

\* the value v as a T of n bytes (unsigned wrap-around)
Trunc(v, n) == v % Pow256(n)

\* does the object of n bytes at byte o lie inside the arena?
Inside(o, n) == InArena(o) /\ InArena(o + n - 1)

----------------------------------------------------------------------------
(* Pointers into an arena: Stats::base() + byte offset.                    *)

\* W64 base() { return (W64)mem; }
base(a) == [stats |-> a, off |-> 0]

PtrAdd(p, k) == [stats |-> p.stats, off |-> p.off + k]

\* a null T*
NullPtr == [stats |-> NULL, off |-> 0]
\* a T* member no constructor has assigned yet
UninitPtr == [stats |-> "UNINIT", off |-> 0]

----------------------------------------------------------------------------
(* The record of the operation performed last, for the operations that     *)
(* return a value (ret) or emit text (out); any other operation clears it. *)

Last(op, d, a, arg, ret, out) ==
    [op |-> op, d |-> d, stats |-> a, arg |-> arg, ret |-> ret, out |-> out]

\* no arena; no argument / value / output; the d of an operation on no
\* descriptor is 0
None == "none"
Nil == <<>>

NoLast == Last(None, 0, None, Nil, Nil, Nil)

Running == fault = "none"

Range(s) == {s[i] : i \in DOMAIN s}

\* a StatArray that reserves room for one element only
ByteSize_OneElement(o) == o.tsize

\* the bytes a constructor reserves: sizeof(T) for a StatObj<T>,
\* sizeof(T) * size for a StatArray<T,size>
ByteSize(o) == o.tsize * o.size

\* a descriptor whose constructor ran to its end
Built(os, d) == d \in DOMAIN os /\ os[d].offset # NoOffset
Constructed(d) == Built(objs, d)

----------------------------------------------------------------------------
(* The registry: the builder's cursor, the Statable tree and the           *)
(* descriptors, as one record b, and the operations that declare into it.  *)

\* StatsBuilder(): rootNode = new Statable("", true); stat_offset = 0;
EmptyRegistry ==
    [stat_offset |-> 0,
     nodes |-> <<[parent |-> 0, default_stats |-> NULL,
                  childNodes |-> <<>>, leafs |-> <<>>]>>,
     objs |-> <<>>,
     fault |-> "none"]

\* W64 get_offset(int size): the value returned, the cursor left behind and
\* whether assert(stat_offset < STATS_SIZE) lets the call return.
\* stat_offset += size converts the int to W64 and adds modulo 2^64.  The
\* W64 cursor is kept as its two's-complement reading: x < 0 stands for the
\* W64 2^64 + x, which the unsigned comparison finds above STATS_SIZE.
get_offset(cursor, size) ==
    [ret |-> cursor,
     stat_offset |-> cursor + size,
     ok |-> cursor + size >= 0 /\ cursor + size < STATS_SIZE]

\* builder.get_offset(size) called on its own, no descriptor constructed
Reserve(b, size) ==
    LET g == get_offset(b.stat_offset, size)
    IN [b EXCEPT !.stat_offset = g.stat_offset,
                 !.fault = IF g.ok THEN "none" ELSE "assert_stats_size"]

\* Statable::add_child_node: childNodes.push(child)
add_child_node(ns, p, id) == [ns EXCEPT ![p].childNodes = Append(@, id)]

\* an add_leaf that puts the new leaf in front of the others
add_leaf_Front(ns, p, id) == [ns EXCEPT ![p].leafs = <<id>> \o @]

\* Statable::add_leaf: leafs.push(edge)
add_leaf(ns, p, id) == [ns EXCEPT ![p].leafs = Append(@, id)]

\* Statable(name, parent): the node joins parent's childNodes (the root's,
\* through add_to_root, when it has no other parent) and starts with the
\* parent's default_stats
Statable(b, p) ==
    LET id == Len(b.nodes) + 1
        n == [parent |-> p, default_stats |-> b.nodes[p].default_stats,
              childNodes |-> <<>>, leafs |-> <<>>]
    IN [b EXCEPT !.nodes = Append(add_child_node(@, p, id), n)]

\* a set_default_var_ptr that resolves to the arena's base, without the offset
set_default_var_ptr_Base(o) ==
    [o EXCEPT !.default_var =
        IF o.default_stats # NULL THEN base(o.default_stats) ELSE NullPtr]

\* a set_default_var_ptr that resolves the pointer once and then keeps it
set_default_var_ptr_Once(o) ==
    IF o.default_var \notin {NullPtr, UninitPtr} THEN o
    ELSE [o EXCEPT !.default_var =
            IF o.default_stats # NULL
            THEN PtrAdd(base(o.default_stats), o.offset)
            ELSE NullPtr]

\* StatObj::set_default_var_ptr / StatArray::set_default_var_ptr
set_default_var_ptr(o) ==
    [o EXCEPT !.default_var =
        IF o.default_stats # NULL
        THEN PtrAdd(base(o.default_stats), o.offset)
        ELSE NullPtr]

\* StatObjBase::set_default_stats(stats)
base_set_default_stats(o, a) == [o EXCEPT !.default_stats = a]

\* a set_default_stats that leaves the cached pointer as it was
set_default_stats_StalePtr(o, a) == base_set_default_stats(o, a)

\* StatObj::set_default_stats / StatArray::set_default_stats
set_default_stats(o, a) == set_default_var_ptr(base_set_default_stats(o, a))

\* a base constructor that takes the root's default_stats, not the parent's
StatObjBase_RootTarget(b, kind, p, ts, n) ==
    [kind |-> kind, tsize |-> ts, size |-> n, parent |-> p,
     default_stats |-> b.nodes[1].default_stats,
     offset |-> NoOffset, default_var |-> UninitPtr]

\* StatObjBase(name, parent): the members the base constructor sets; offset
\* and default_var are still to be assigned by the derived constructor
StatObjBase(b, kind, p, ts, n) ==
    [kind |-> kind, tsize |-> ts, size |-> n, parent |-> p,
     default_stats |-> b.nodes[p].default_stats,
     offset |-> NoOffset, default_var |-> UninitPtr]

\* StatObj(name, parent) / StatArray(name, parent): the base constructor
\* (which ends in parent->add_leaf(this)), then
\* offset = builder.get_offset(bytes); set_default_var_ptr();
Descriptor(b, kind, p, ts, n) ==
    LET id == Len(b.objs) + 1
        o0 == StatObjBase(b, kind, p, ts, n)
        g  == get_offset(b.stat_offset, ByteSize(o0))
        o  == IF g.ok THEN set_default_var_ptr([o0 EXCEPT !.offset = g.ret])
              ELSE o0
    IN [b EXCEPT !.nodes = add_leaf(@, p, id),
                 !.objs = Append(@, o),
                 !.stat_offset = g.stat_offset,
                 !.fault = IF g.ok THEN "none" ELSE "assert_stats_size"]

\* the nodes of the subtree of n, n included
RECURSIVE SubtreeNodes(_, _)
SubtreeNodes(ns, n) ==
    {n} \cup UNION {SubtreeNodes(ns, c) : c \in Range(ns[n].childNodes)}

\* the leaves of the subtree of n in traversal order: a node's own leafs in
\* registration order, then each child node in registration order
RECURSIVE SubtreeLeafs(_, _)
RECURSIVE ChildLeafs(_, _)
SubtreeLeafs(ns, n) == ns[n].leafs \o ChildLeafs(ns, ns[n].childNodes)
ChildLeafs(ns, cs) ==
    IF cs = <<>> THEN <<>>
    ELSE SubtreeLeafs(ns, Head(cs)) \o ChildLeafs(ns, Tail(cs))

\* Statable::set_default_stats(stats): this node, every child node and every
\* leaf below it
Propagate(b, n, a) ==
    LET sub == SubtreeNodes(b.nodes, n)
        lfs == Range(SubtreeLeafs(b.nodes, n))
    IN [b EXCEPT !.nodes = [i \in DOMAIN @ |->
                              IF i \in sub THEN [@[i] EXCEPT !.default_stats = a]
                              ELSE @[i]],
                 !.objs = [d \in DOMAIN @ |->
                              IF d \in lfs THEN set_default_stats(@[d], a)
                              ELSE @[d]]]

----------------------------------------------------------------------------
(* The declaration operations as actions on the program's state.           *)

Registry == [stat_offset |-> stat_offset, nodes |-> nodes, objs |-> objs,
             fault |-> fault]

Becomes(b) ==
    /\ stat_offset' = b.stat_offset
    /\ nodes' = b.nodes
    /\ objs' = b.objs
    /\ fault' = b.fault

GetOffsetCall(size) ==
    /\ Running
    /\ Becomes(Reserve(Registry, size))
    /\ last' = Last("get_offset", 0, None, <<size>>,
                    IF get_offset(stat_offset, size).ok
                    THEN <<get_offset(stat_offset, size).ret>> ELSE Nil, Nil)
    /\ UNCHANGED <<mem, wild, nwrites, routed>>

NewStatable(p) ==
    /\ Running
    /\ Len(nodes) < MaxNodes
    /\ p \in DOMAIN nodes
    /\ Becomes(Statable(Registry, p))
    /\ last' = NoLast
    /\ UNCHANGED <<mem, wild, nwrites, routed>>

\* StatObj<T>(name, parent), sizeof(T) = ts
NewStatObj(p, ts) ==
    /\ Running
    /\ Len(objs) < MaxDescs
    /\ p \in DOMAIN nodes
    /\ Becomes(Descriptor(Registry, "StatObj", p, ts, 1))
    /\ last' = Last("StatObj", Len(objs) + 1, None, <<p>>, Nil, Nil)
    /\ UNCHANGED <<mem, wild, nwrites, routed>>

\* StatArray<T,size>(name, parent), sizeof(T) = ts, size = n
NewStatArray(p, ts, n) ==
    /\ Running
    /\ Len(objs) < MaxDescs
    /\ p \in DOMAIN nodes
    /\ Becomes(Descriptor(Registry, "StatArray", p, ts, n))
    /\ last' = Last("StatArray", Len(objs) + 1, None, <<p>>, Nil, Nil)
    /\ UNCHANGED <<mem, wild, nwrites, routed>>

\* set_default_stats(stats) called on one descriptor
LeafSetDefaultStats(d, a) ==
    /\ Running
    /\ Constructed(d)
    /\ objs' = [objs EXCEPT ![d] = set_default_stats(@, a)]
    /\ last' = NoLast
    /\ UNCHANGED <<stat_offset, nodes, mem, wild, fault, nwrites, routed>>

\* set_default_stats(stats) called on one Statable
NodeSetDefaultStats(n, a) ==
    /\ Running
    /\ n \in DOMAIN nodes
    /\ Becomes(Propagate(Registry, n, a))
    /\ last' = NoLast
    /\ UNCHANGED <<mem, wild, nwrites, routed>>

----------------------------------------------------------------------------
(* Stores through a T* or T&.  A store that leaves the arena's             *)
(* W8[STATS_SIZE] block is undefined: the build either faults or writes    *)
(* over whatever lies next to the block (wild).                            *)

StoreT(p, n, v) ==
    IF Inside(p.off, n)
    THEN /\ mem' = [mem EXCEPT ![p.stats] = WriteT(@, p.off, n, v)]
         /\ UNCHANGED <<wild, fault>>
    ELSE \/ /\ fault' = "segv"
            /\ UNCHANGED <<mem, wild>>
         \/ /\ mem' = [mem EXCEPT ![p.stats] = WriteT(@, p.off, n, v)]
            /\ wild' = TRUE
            /\ UNCHANGED fault

\* the T read through p
Deref(p, n) == ReadT(mem[p.stats], p.off, n)

\* an assertion that lets the call return
Abort_Continue(why, op, d, arg) ==
    /\ last' = Last(op, d, None, arg, Nil, Nil)
    /\ UNCHANGED <<stat_offset, nodes, objs, mem, wild, fault, nwrites, routed>>

\* assert(...) failed: the process aborts, nothing is stored
Abort(why, op, d, arg) ==
    /\ fault' = why
    /\ last' = Last(op, d, None, arg, Nil, Nil)
    /\ UNCHANGED <<stat_offset, nodes, objs, mem, wild, nwrites, routed>>

----------------------------------------------------------------------------
(* StatObj<T>: ++ and --                                                   *)

\* a postfix ++ that computes the incremented value and does not store it
PostIncOp_NoStore(v, n) == [store |-> v, ret |-> v]

\* T ret = (*default_var)++; return ret;
PostIncOp(v, n) == [store |-> Trunc(v + 1, n), ret |-> v]
\* (*default_var)++; return (*default_var);
PreIncOp(v, n) == [store |-> Trunc(v + 1, n), ret |-> Trunc(v + 1, n)]
\* T ret = (*default_var)--; return ret;
PostDecOp(v, n) == [store |-> Trunc(v - 1, n), ret |-> v]
\* (*default_var)--; return (*default_var);
PreDecOp(v, n) == [store |-> Trunc(v - 1, n), ret |-> Trunc(v - 1, n)]

IsObj(d) == Constructed(d) /\ objs[d].kind = "StatObj"
IsArray(d) == Constructed(d) /\ objs[d].kind = "StatArray"

\* assert(default_var); then the store r.store and the return of r.ret
Unary(op, d, r) ==
    /\ nwrites' = nwrites + 1
    /\ StoreT(objs[d].default_var, objs[d].tsize, r.store)
    /\ last' = Last(op, d, objs[d].default_stats, Nil, <<r.ret>>, Nil)
    /\ UNCHANGED <<stat_offset, nodes, objs, routed>>

PostInc(d) ==
    /\ Running /\ IsObj(d) /\ nwrites < MaxWrites
    /\ IF objs[d].default_var = NullPtr
       THEN Abort("assert_default_var", "a++", d, Nil)
       ELSE Unary("a++", d, PostIncOp(Deref(objs[d].default_var, objs[d].tsize),
                                      objs[d].tsize))

PreInc(d) ==
    /\ Running /\ IsObj(d) /\ nwrites < MaxWrites
    /\ IF objs[d].default_var = NullPtr
       THEN Abort("assert_default_var", "++a", d, Nil)
       ELSE Unary("++a", d, PreIncOp(Deref(objs[d].default_var, objs[d].tsize),
                                     objs[d].tsize))

PostDec(d) ==
    /\ Running /\ IsObj(d) /\ nwrites < MaxWrites
    /\ IF objs[d].default_var = NullPtr
       THEN Abort("assert_default_var", "a--", d, Nil)
       ELSE Unary("a--", d, PostDecOp(Deref(objs[d].default_var, objs[d].tsize),
                                      objs[d].tsize))

PreDec(d) ==
    /\ Running /\ IsObj(d) /\ nwrites < MaxWrites
    /\ IF objs[d].default_var = NullPtr
       THEN Abort("assert_default_var", "--a", d, Nil)
       ELSE Unary("--a", d, PreDecOp(Deref(objs[d].default_var, objs[d].tsize),
                                     objs[d].tsize))

----------------------------------------------------------------------------
(* StatObj<T>: the const binary operators + - * /                          *)

BinOps == {"+", "-", "*", "/"}

\* how last names the form that takes a StatObj<T> operand
ObjForm(op) == CASE op = "+" -> "+obj" [] op = "-" -> "-obj"
                 [] op = "*" -> "*obj" [] op = "/" -> "/obj"

\* x * y as a T of n <= 2 bytes, computed in two halves of x so that no
\* intermediate product leaves the range of the model checker's integers
MulT(x, y, n) == Trunc(Trunc((x \div 256) * y, n) * 256 + (x % 256) * y, n)

\* T ret = x op y, for y # 0 when op is /
BinResult(op, x, y, n) ==
    CASE op = "+" -> Trunc(x + y, n)
      [] op = "-" -> Trunc(x - y, n)
      [] op = "*" -> MulT(x, y, n)
      [] op = "/" -> x \div y

\* an operator+ that works as += and stores the sum it returns
Returns_PlusStores(op, form, d, arg, x, y) ==
    /\ ~(op = "/" /\ y = 0)
    /\ last' = Last(form, d, objs[d].default_stats, arg,
                    <<BinResult(op, x, y, objs[d].tsize)>>, Nil)
    /\ mem' = IF op = "+"
              THEN [mem EXCEPT ![objs[d].default_stats] =
                       WriteT(@, objs[d].offset, objs[d].tsize,
                              BinResult(op, x, y, objs[d].tsize))]
              ELSE mem
    /\ UNCHANGED <<stat_offset, nodes, objs, wild, fault, nwrites, routed>>

\* the operator returns: nothing is stored.  An integer division by zero is
\* undefined: the build traps or yields some value of T
Returns(op, form, d, arg, x, y) ==
    /\ \/ /\ ~(op = "/" /\ y = 0)
          /\ last' = Last(form, d, objs[d].default_stats, arg,
                          <<BinResult(op, x, y, objs[d].tsize)>>, Nil)
          /\ UNCHANGED fault
       \/ /\ op = "/" /\ y = 0
          /\ \/ /\ fault' = "sigfpe"
                /\ last' = Last(form, d, None, arg, Nil, Nil)
             \/ /\ \E r \in {0, Pow256(objs[d].tsize) - 1} :
                      last' = Last(form, d, objs[d].default_stats, arg, <<r>>, Nil)
                /\ UNCHANGED fault
    /\ UNCHANGED <<stat_offset, nodes, objs, mem, wild, nwrites, routed>>

\* T operator op(const T &b) const
BinaryLit(op, d, b) ==
    /\ Running /\ IsObj(d)
    /\ IF objs[d].default_var = NullPtr
       THEN Abort("assert_default_var", op, d, <<b>>)
       ELSE Returns(op, op, d, <<b>>, Deref(objs[d].default_var, objs[d].tsize), b)

\* T operator op(const StatObj<T> &statObj) const
BinaryObj(op, d, e) ==
    /\ Running /\ IsObj(d) /\ IsObj(e) /\ objs[d].tsize = objs[e].tsize
    /\ IF objs[d].default_var = NullPtr \/ objs[e].default_var = NullPtr
       THEN Abort("assert_default_var", ObjForm(op), d, <<e>>)
       ELSE Returns(op, ObjForm(op), d, <<e>>,
                    Deref(objs[d].default_var, objs[d].tsize),
                    Deref(objs[e].default_var, objs[e].tsize))

----------------------------------------------------------------------------
(* operator()(Stats *stats): the storage in the arena given                *)

\* an operator() that resolves through the descriptor's own target when it
\* has one
CallPtr_OwnTarget(o, a) ==
    IF o.default_stats = NULL THEN PtrAdd(base(a), o.offset) ELSE o.default_var

\* StatObj: *(T*)(stats->base() + offset);
\* StatArray: *(BaseArr*)(stats->base() + offset);
CallPtr(o, a) == PtrAdd(base(a), o.offset)

\* obj(stats)++, as in cache.read.hit(kernel_stats)++
CallInc(d, a) ==
    /\ Running /\ IsObj(d) /\ nwrites < MaxWrites
    /\ nwrites' = nwrites + 1
    /\ LET p == CallPtr(objs[d], a)
       IN /\ StoreT(p, objs[d].tsize,
                    PostIncOp(Deref(p, objs[d].tsize), objs[d].tsize).store)
          /\ last' = Last("()++", d, a, Nil, <<p>>, Nil)
    /\ UNCHANGED <<stat_offset, nodes, objs, routed>>

\* arr(stats)[i] = v, i an index of the BaseArr
CallStore(d, a, i, v) ==
    /\ Running /\ IsArray(d) /\ nwrites < MaxWrites
    /\ i \in 0..(objs[d].size - 1)
    /\ nwrites' = nwrites + 1
    /\ LET p == PtrAdd(CallPtr(objs[d], a), i * objs[d].tsize)
       IN /\ StoreT(p, objs[d].tsize, v)
          /\ last' = Last("()[]=", d, a, <<i, v>>, <<p>>, Nil)
    /\ UNCHANGED <<stat_offset, nodes, objs, routed>>

----------------------------------------------------------------------------
(* StatArray<T,size>::operator[]                                           *)

\* return *(T*)(default_var + (index * sizeof(T)));
\* default_var is a T*, so the sum advances by sizeof(T) bytes per unit
ElemPtr(o, index) == PtrAdd(o.default_var, (index * o.tsize) * o.tsize)

\* arr[index] = v
IndexStore(d, index, v) ==
    /\ Running /\ IsArray(d) /\ nwrites < MaxWrites
    /\ IF ~(index < objs[d].size)
       THEN Abort("assert_index", "[]=", d, <<index, v>>)
       ELSE IF objs[d].default_var = NullPtr
       THEN Abort("assert_default_var", "[]=", d, <<index, v>>)
       ELSE /\ nwrites' = nwrites + 1
            /\ StoreT(ElemPtr(objs[d], index), objs[d].tsize, v)
            /\ last' = Last("[]=", d, objs[d].default_stats, <<index, v>>,
                            <<ElemPtr(objs[d], index)>>, Nil)
            /\ UNCHANGED <<stat_offset, nodes, objs, routed>>

----------------------------------------------------------------------------
(* add_stats: Stats::operator+= -> StatsBuilder::add_stats ->              *)
(* rootNode->add_stats -> every leaf's add_stats                           *)

\* an add_stats that adds the first element only
leaf_add_stats_FirstOnly(m, o, dest, src, i) ==
    [m EXCEPT ![dest] =
        WriteT(@, o.offset, o.tsize,
               Trunc(ReadT(m[dest], o.offset, o.tsize)
                         + ReadT(m[src], o.offset, o.tsize), o.tsize))]

\* StatObj::add_stats: dest_var += (*this)(&src_stats);
\* StatArray::add_stats: dest_arr[i] += src_arr[i], i = 0 .. size-1
RECURSIVE leaf_add_stats(_, _, _, _, _)
leaf_add_stats(m, o, dest, src, i) ==
    IF i = o.size THEN m
    ELSE LET at == o.offset + i * o.tsize
             sum == Trunc(ReadT(m[dest], at, o.tsize) + ReadT(m[src], at, o.tsize),
                          o.tsize)
         IN leaf_add_stats([m EXCEPT ![dest] = WriteT(@, at, o.tsize, sum)],
                           o, dest, src, i + 1)

\* Statable::add_stats over the leaves in traversal order
RECURSIVE node_add_stats(_, _, _, _)
node_add_stats(m, ds, dest, src) ==
    IF ds = <<>> THEN m
    ELSE node_add_stats(leaf_add_stats(m, objs[Head(ds)], dest, src, 0),
                        Tail(ds), dest, src)

\* dest_stats += src_stats
AddStats(dest, src) ==
    /\ Running /\ nwrites < MaxWrites
    /\ nwrites' = nwrites + 1
    /\ mem' = node_add_stats(mem, SubtreeLeafs(nodes, 1), dest, src)
    /\ last' = Last("+=", 0, dest, <<src>>, Nil, Nil)
    /\ UNCHANGED <<stat_offset, nodes, objs, wild, fault, routed>>

----------------------------------------------------------------------------
(* dump of one descriptor.  The output is the sequence of the pieces       *)
(* written to the stream; a number is written as its decimal digits.       *)

Digit == <<"0", "1", "2", "3", "4", "5", "6", "7", "8", "9">>

\* os << var: the decimal digits of var, most significant first
RECURSIVE Dec(_)
Dec(v) == IF v < 10 THEN <<Digit[v + 1]>> ELSE Append(Dec(v \div 10), Digit[(v % 10) + 1])

\* the name given to the d-th descriptor constructed
Name(d) == <<"stat1", "stat2", "stat3", "stat4">>[d]

\* T var = (*this)(stats) / BaseArr& arr = (*this)(stats); arr[i]
Elem(o, a, i) == Deref(PtrAdd(CallPtr(o, a), i * o.tsize), o.tsize)

\* StatObj::dump(ostream&): os << name << ":" << var << "\n";
ObjDumpText(d, a) == <<Name(d), ":">> \o Dec(Elem(objs[d], a, 0)) \o <<"\n">>

\* StatArray::dump(ostream&): os << name << ": "; each arr[i] << " "; "\n"
RECURSIVE ArrTextElems(_, _, _)
ArrTextElems(o, a, i) ==
    IF i = o.size THEN <<>>
    ELSE Dec(Elem(o, a, i)) \o <<" ">> \o ArrTextElems(o, a, i + 1)

ArrDumpText(d, a) == <<Name(d), ": ">> \o ArrTextElems(objs[d], a, 0) \o <<"\n">>

\* StatObj::dump(YAML::Emitter&): Key name, Value var
ObjDumpYaml(d, a) == <<"Key", Name(d), "Value">> \o Dec(Elem(objs[d], a, 0))

\* StatArray::dump(YAML::Emitter&): Key name, Value, Flow, BeginSeq,
\* each arr[i] as one item of the sequence, EndSeq, Block
RECURSIVE ArrYamlElems(_, _, _)
ArrYamlElems(o, a, i) ==
    IF i = o.size THEN <<>>
    ELSE <<"Item">> \o Dec(Elem(o, a, i)) \o ArrYamlElems(o, a, i + 1)

ArrDumpYaml(d, a) ==
    <<"Key", Name(d), "Value", "Flow", "BeginSeq">>
        \o ArrYamlElems(objs[d], a, 0) \o <<"EndSeq", "Block">>

\* a dump that makes the arena given the target of every descriptor
Emits_Retarget(op, d, a, out) ==
    /\ last' = Last(op, d, a, Nil, Nil, out)
    /\ objs' = [e \in DOMAIN objs |-> set_default_stats(objs[e], a)]
    /\ UNCHANGED <<stat_offset, nodes, mem, wild, fault, nwrites, routed>>

Emits(op, d, a, out) ==
    /\ last' = Last(op, d, a, Nil, Nil, out)
    /\ UNCHANGED <<stat_offset, nodes, objs, mem, wild, fault, nwrites, routed>>

\* leaf.dump(os, stats)
DumpText(d, a) ==
    /\ Running /\ Constructed(d)
    /\ Emits("dump_text", d, a,
             IF objs[d].kind = "StatObj" THEN ObjDumpText(d, a)
             ELSE ArrDumpText(d, a))

\* leaf.dump(out, stats); StatObj's starts with assert(default_var)
DumpYaml(d, a) ==
    /\ Running /\ Constructed(d)
    /\ IF objs[d].kind = "StatObj"
       THEN IF objs[d].default_var = NullPtr
            THEN Abort("assert_default_var", "dump_yaml", d, <<a>>)
            ELSE Emits("dump_yaml", d, a, ObjDumpYaml(d, a))
       ELSE Emits("dump_yaml", d, a, ArrDumpYaml(d, a))

----------------------------------------------------------------------------
(* dump of a node: Statable::dump, and StatsBuilder::dump, which dumps the *)
(* root node.  Depth first: the node's name, its leafs in the order of     *)
(* leafs, then its child nodes in the order of childNodes.                 *)

\* the name given to the n-th node; the root is Statable("", true)
NodeName(n) == <<"", "node2", "node3", "node4">>[n]

\* leafs[i]->dump(os, stats), the virtual dump of a StatObj or StatArray
LeafText(d, a) == IF objs[d].kind = "StatObj" THEN ObjDumpText(d, a) ELSE ArrDumpText(d, a)

\* leafs[i]->dump(out, stats)
LeafYaml(d, a) == IF objs[d].kind = "StatObj" THEN ObjDumpYaml(d, a) ELSE ArrDumpYaml(d, a)

RECURSIVE LeafsText(_, _)
LeafsText(ds, a) ==
    IF ds = <<>> THEN <<>> ELSE LeafText(Head(ds), a) \o LeafsText(Tail(ds), a)

RECURSIVE LeafsYaml(_, _)
LeafsYaml(ds, a) ==
    IF ds = <<>> THEN <<>> ELSE LeafYaml(Head(ds), a) \o LeafsYaml(Tail(ds), a)

RECURSIVE NodeText(_, _, _)
RECURSIVE ChildrenText(_, _, _)
RECURSIVE NodeYaml(_, _, _)
RECURSIVE ChildrenYaml(_, _, _)

ChildrenText(ns, cs, a) ==
    IF cs = <<>> THEN <<>>
    ELSE NodeText(ns, Head(cs), a) \o ChildrenText(ns, Tail(cs), a)

ChildrenYaml(ns, cs, a) ==
    IF cs = <<>> THEN <<>>
    ELSE NodeYaml(ns, Head(cs), a) \o ChildrenYaml(ns, Tail(cs), a)

\* Statable::dump(ostream&, stats): a heading line, the leafs, the children
NodeText(ns, n, a) ==
    <<NodeName(n), "\n">> \o LeafsText(ns[n].leafs, a)
                          \o ChildrenText(ns, ns[n].childNodes, a)

\* Statable::dump(YAML::Emitter&, stats): the name as key of a mapping of
\* the leafs and the children
NodeYaml(ns, n, a) ==
    <<"Key", NodeName(n), "Value", "BeginMap">>
        \o LeafsYaml(ns[n].leafs, a)
        \o ChildrenYaml(ns, ns[n].childNodes, a) \o <<"EndMap">>

\* node.dump(os, stats); builder.dump(stats, os) is the root's
NodeDumpText(n, a) ==
    /\ Running /\ n \in DOMAIN nodes
    /\ Emits("node_dump_text", n, a, NodeText(nodes, n, a))

\* node.dump(out, stats); the dump of a StatObj leaf asserts default_var
NodeDumpYaml(n, a) ==
    /\ Running /\ n \in DOMAIN nodes
    /\ IF \E d \in Range(SubtreeLeafs(nodes, n)) :
              objs[d].kind = "StatObj" /\ objs[d].default_var = NullPtr
       THEN Abort("assert_default_var", "node_dump_yaml", n, <<a>>)
       ELSE Emits("node_dump_yaml", n, a, NodeYaml(nodes, n, a))

----------------------------------------------------------------------------
(* Execution contexts.  Each context owns one arena and works on the       *)
(* descriptors, which all contexts share, in rounds of two calls:          *)
(* set_default_stats(its arena) on a descriptor, then ++ on that           *)
(* descriptor.  routed[c] is the descriptor context c has routed and not   *)
(* yet incremented, 0 when its next call is a set_default_stats.  The      *)
(* header has no lock and no per-context state: the calls of the contexts  *)
(* interleave, each call taken as one step.                                *)

Ctxs == {1, 2}

\* the arena context c owns
Own(c) == IF c = 1 THEN "X" ELSE "Y"

\* context c: obj.set_default_stats(its arena)
CtxSetDefaultStats(c, d) ==
    /\ Running /\ IsObj(d)
    /\ routed[c] = 0
    /\ objs' = [objs EXCEPT ![d] = set_default_stats(@, Own(c))]
    /\ routed' = [routed EXCEPT ![c] = d]
    /\ last' = NoLast
    /\ UNCHANGED <<stat_offset, nodes, mem, wild, fault, nwrites>>

\* context c: obj++ (pre = FALSE) or ++obj (pre = TRUE) on the descriptor
\* it has routed
CtxInc(c, pre) ==
    /\ Running /\ routed[c] # 0 /\ nwrites < MaxWrites
    /\ LET d == routed[c]
           v == Deref(objs[d].default_var, objs[d].tsize)
           r == IF pre THEN PreIncOp(v, objs[d].tsize) ELSE PostIncOp(v, objs[d].tsize)
       IN IF objs[d].default_var = NullPtr
          THEN Abort("assert_default_var", IF pre THEN "++a" ELSE "a++", d, <<c>>)
          ELSE /\ nwrites' = nwrites + 1
               /\ StoreT(objs[d].default_var, objs[d].tsize, r.store)
               /\ last' = Last(IF pre THEN "++a" ELSE "a++", d,
                               objs[d].default_stats, <<c>>, <<r.ret>>, Nil)
               /\ routed' = [routed EXCEPT ![c] = 0]
               /\ UNCHANGED <<stat_offset, nodes, objs>>

----------------------------------------------------------------------------
(* The declaring program: descriptors and nodes are constructed, targets   *)
(* are set, and get_offset is called, in any order.                        *)

Init ==
    /\ stat_offset = EmptyRegistry.stat_offset
    /\ nodes = EmptyRegistry.nodes
    /\ objs = EmptyRegistry.objs
    /\ fault = EmptyRegistry.fault
    /\ mem = [a \in Arenas |-> ZeroMem]
    /\ wild = FALSE
    /\ nwrites = 0
    /\ last = NoLast
    /\ routed = [c \in Ctxs |-> 0]

Next ==
    \/ \E s \in RawSizes : GetOffsetCall(s)
    \/ \E p \in 1..MaxNodes : NewStatable(p)
    \/ \E p \in 1..MaxNodes, ts \in TSizes : NewStatObj(p, ts)
    \/ \E p \in 1..MaxNodes, ts \in TSizes, n \in ArrSizes : NewStatArray(p, ts, n)
    \/ \E d \in 1..MaxDescs, a \in Arenas : LeafSetDefaultStats(d, a)
    \/ \E n \in 1..MaxNodes, a \in Arenas : NodeSetDefaultStats(n, a)

Spec == Init /\ [][Next]_vars

----------------------------------------------------------------------------
(* The running program: the declarations are done (one of RunLayouts), the *)
(* descriptors are pointed at arenas and used.                             *)

DeclNode(p) == [decl |-> "Statable", p |-> p]
DeclObj(p, ts) == [decl |-> "StatObj", p |-> p, ts |-> ts, n |-> 1]
DeclArr(p, ts, n) == [decl |-> "StatArray", p |-> p, ts |-> ts, n |-> n]
DeclPad(size) == [decl |-> "get_offset", size |-> size]

\* the registry after the declarations ds, made in that order
RECURSIVE Declare(_, _)
Declare(b, ds) ==
    IF ds = <<>> THEN b
    ELSE LET x == Head(ds)
             b1 == CASE x.decl = "Statable" -> Statable(b, x.p)
                     [] x.decl = "get_offset" -> Reserve(b, x.size)
                     [] OTHER -> Descriptor(b, x.decl, x.p, x.ts, x.n)
         IN Declare(b1, Tail(ds))

RunLayouts ==
    { <<DeclNode(1), DeclObj(2, 2), DeclArr(2, 2, 2)>>,
      <<DeclNode(1), DeclArr(1, 2, 2), DeclObj(2, 2)>>,
      <<DeclNode(1), DeclNode(1), DeclObj(3, 2), DeclObj(1, 2)>>,
      <<DeclNode(1), DeclObj(2, 1), DeclArr(2, 1, 2)>>,
      <<DeclPad(STATS_SIZE - 5), DeclNode(1), DeclArr(2, 2, 2)>> }

\* the values a run has left in arena a, element i of every descriptor:
\* 1, 2, ... in X and 10, 20, ... in Y
LoadedVal(a, i) == IF a = "X" THEN i + 1 ELSE 10 * (i + 1)

\* arena a after arr(a)[i] = LoadedVal(a, i) / obj(a) = LoadedVal(a, 0) for
\* the descriptors from the d-th on, element i on
RECURSIVE Loaded(_, _, _, _, _)
Loaded(m, os, a, d, i) ==
    IF d > Len(os) THEN m
    ELSE IF i = os[d].size THEN Loaded(m, os, a, d + 1, 0)
    ELSE Loaded(WriteT(m, os[d].offset + i * os[d].tsize, os[d].tsize,
                       LoadedVal(a, i)),
                os, a, d, i + 1)

\* the arenas are either fresh (zero-filled), or hold the values of an
\* earlier run, after which one more store is followed
InitRun ==
    \E ds \in RunLayouts, used \in BOOLEAN :
        /\ Declare(EmptyRegistry, ds).fault = "none"
        /\ stat_offset = Declare(EmptyRegistry, ds).stat_offset
        /\ nodes = Declare(EmptyRegistry, ds).nodes
        /\ objs = Declare(EmptyRegistry, ds).objs
        /\ fault = "none"
        /\ mem = [a \in Arenas |->
                    IF used
                    THEN Loaded(ZeroMem, Declare(EmptyRegistry, ds).objs, a, 1, 0)
                    ELSE ZeroMem]
        /\ wild = FALSE
        /\ nwrites = (IF used THEN MaxWrites - 1 ELSE 0)
        /\ last = NoLast
        /\ routed = [c \in Ctxs |-> 0]

NextRun ==
    \/ \E d \in 1..MaxDescs, a \in Arenas : LeafSetDefaultStats(d, a)
    \/ \E d \in 1..MaxDescs : PostInc(d)
    \/ \E d \in 1..MaxDescs : PreInc(d)
    \/ \E d \in 1..MaxDescs : PostDec(d)
    \/ \E d \in 1..MaxDescs : PreDec(d)
    \/ \E op \in BinOps, d \in 1..MaxDescs, b \in Lits : BinaryLit(op, d, b)
    \/ \E op \in BinOps, d \in 1..MaxDescs, e \in 1..MaxDescs : BinaryObj(op, d, e)
    \/ \E d \in 1..MaxDescs, a \in Arenas : CallInc(d, a)
    \/ \E d \in 1..MaxDescs, a \in Arenas, i \in Indices, v \in Vals : CallStore(d, a, i, v)
    \/ \E d \in 1..MaxDescs, i \in Indices, v \in Vals : IndexStore(d, i, v)
    \/ \E x \in Arenas, y \in Arenas : AddStats(x, y)
    \/ \E d \in 1..MaxDescs, a \in Arenas : DumpText(d, a)
    \/ \E d \in 1..MaxDescs, a \in Arenas : DumpYaml(d, a)
    \/ \E n \in 1..MaxNodes, a \in Arenas : NodeDumpText(n, a)
    \/ \E n \in 1..MaxNodes, a \in Arenas : NodeDumpYaml(n, a)

SpecRun == InitRun /\ [][NextRun]_vars

----------------------------------------------------------------------------
(* Two execution contexts at work on the descriptors of a running program. *)

NextCtx ==
    \/ \E c \in Ctxs, d \in 1..MaxDescs : CtxSetDefaultStats(c, d)
    \/ \E c \in Ctxs, pre \in BOOLEAN : CtxInc(c, pre)

SpecCtx == InitRun /\ [][NextCtx]_vars

----------------------------------------------------------------------------
(* The builder's public get_offset(int size) on its own: a caller reserves *)
(* and, the parameter being a signed int, may pass a negative size.        *)

SignedSizes == {0 - 4, 4, 2048}

NextOffset == \E s \in SignedSizes : GetOffsetCall(s)

SpecOffset == Init /\ [][NextOffset]_vars

----------------------------------------------------------------------------
(* Claims                                                                  *)

\* the size in bytes of a descriptor's storage
SizeOf(o) == IF o.kind = "StatObj" THEN o.tsize ELSE o.tsize * o.size

\* C1: the byte ranges of any two distinct descriptors that were constructed
\* against the builder do not overlap (size = sizeof(T) for a StatObj,
\* sizeof(T) * size for a StatArray).
C1_OffsetsDisjoint ==
    \A d, e \in DOMAIN objs :
        (d # e /\ Constructed(d) /\ Constructed(e))
            => \/ objs[d].offset + SizeOf(objs[d]) <= objs[e].offset
               \/ objs[e].offset + SizeOf(objs[e]) <= objs[d].offset

\* an array has been constructed and a second descriptor right after it
C1_Witness ==
    /\ last.op \in {"StatObj", "StatArray"}
    /\ Running
    /\ last.d > 1
    /\ objs[last.d - 1].kind = "StatArray"
    /\ objs[last.d - 1].tsize = 2
    /\ objs[last.d].offset = objs[last.d - 1].offset + 4

\* C2: get_offset(size) aborts when the cursor after the advance exceeds
\* STATS_SIZE, and succeeds, returning the cursor before the advance, when the
\* cursor after the advance is exactly STATS_SIZE.
C2_CapacityEnforcement ==
    /\ stat_offset > STATS_SIZE => fault = "assert_stats_size"
    /\ stat_offset = STATS_SIZE => Running
    /\ (last.op = "get_offset" /\ stat_offset = STATS_SIZE)
           => last.ret = <<STATS_SIZE - last.arg[1]>>

\* node m is node n or lies below it, by the parent pointers
RECURSIVE IsUnder(_, _, _)
IsUnder(ns, m, n) ==
    \/ m = n
    \/ ns[m].parent # 0 /\ IsUnder(ns, ns[m].parent, n)

\* the pointer a descriptor at offset off resolves to under target a
Resolved(a, off) == IF a = NULL THEN NullPtr ELSE [stats |-> a, off |-> off]

\* C6: right after Statable::set_default_stats(A) on node N, the node N, every
\* node below it and every leaf below it have target A (the leaf's cached
\* pointer is A's base + its offset), and every node and leaf outside N's
\* subtree has the target it had before.
C6_Propagation ==
    [][\A n \in DOMAIN nodes, a \in Arenas :
          (/\ last' = NoLast /\ stat_offset' = stat_offset
           /\ Len(nodes') = Len(nodes) /\ nodes'[n].default_stats = a
           /\ NodeSetDefaultStats(n, a)) =>
              /\ DOMAIN nodes' = DOMAIN nodes
              /\ DOMAIN objs' = DOMAIN objs
              /\ \A m \in DOMAIN nodes :
                    nodes'[m].default_stats =
                        IF IsUnder(nodes, m, n) THEN a ELSE nodes[m].default_stats
              /\ \A d \in DOMAIN objs :
                    IF IsUnder(nodes, objs[d].parent, n)
                    THEN /\ objs'[d].default_stats = a
                         /\ objs'[d].default_var = Resolved(a, objs[d].offset)
                    ELSE objs'[d] = objs[d]]_vars

\* the root was set to X and, later, the chain of nodes 2 and 3 below it to
\* Y: a leaf under node 3 follows to Y, a leaf of the root stays on X
C6_Witness ==
    /\ Len(nodes) = 3
    /\ nodes[2].parent = 1 /\ nodes[3].parent = 2
    /\ nodes[1].default_stats = "X"
    /\ nodes[2].default_stats = "Y" /\ nodes[3].default_stats = "Y"
    /\ \E d, e \in DOMAIN objs :
          /\ objs[d].parent = 3 /\ objs[d].default_stats = "Y"
          /\ objs[d].default_var = [stats |-> "Y", off |-> objs[d].offset]
          /\ objs[e].parent = 1 /\ objs[e].default_stats = "X"

\* C7: a descriptor constructed under node P starts with P's default_stats of
\* that moment (unset when P's is unset), and the target of an existing
\* descriptor changes only in a set_default_stats on the descriptor itself or
\* on its parent node or a node above it.
C7_CaptureAtConstruction ==
    [][/\ (last'.op \in {"StatObj", "StatArray"} /\ fault' = "none" /\ last' # last)
            => /\ objs'[last'.d].default_stats = nodes[last'.arg[1]].default_stats
               /\ objs'[last'.d].default_var =
                      Resolved(nodes[last'.arg[1]].default_stats, objs'[last'.d].offset)
               /\ objs'[last'.d].parent = last'.arg[1]
       /\ \A d \in DOMAIN objs :
             (objs'[d].default_stats # objs[d].default_stats)
                 => \/ \E a \in Arenas : LeafSetDefaultStats(d, a)
                    \/ \E n \in DOMAIN nodes, a \in Arenas :
                          /\ IsUnder(nodes, objs[d].parent, n)
                          /\ NodeSetDefaultStats(n, a)]_vars

\* a descriptor has just been constructed under a node whose target is Y
\* while the root's is not, and has Y as its target
C7_Witness ==
    /\ last.op \in {"StatObj", "StatArray"}
    /\ Running
    /\ last.arg[1] # 1
    /\ nodes[1].default_stats # "Y"
    /\ nodes[last.arg[1]].default_stats = "Y"
    /\ objs[last.d].default_stats = "Y"

----------------------------------------------------------------------------
\* the value of element i of descriptor o in arena a of memory m
ValueAt(m, a, o, i) == ReadT(m[a], o.offset + i * o.tsize, o.tsize)

\* the number of values of the element type of o
Modulus(o) == IF o.tsize = 1 THEN 256 ELSE 65536

UnaryOps == {"a++", "++a", "a--", "--a"}
ObjForms == {"+obj", "-obj", "*obj", "/obj"}
\* the operations that store through the descriptor's default target
DefaultStores == UnaryOps \cup {"[]="}
\* the operations that go through the arena given to operator()
CallStores == {"()++", "()[]="}

\* C3: X += Y with X and Y distinct leaves every element of every leaf in X
\* equal to its former value plus the value of Y at the same place (a sum in
\* the element type T), and leaves Y as it was.
C3_MergeCorrect ==
    [][(last'.op = "+=" /\ last'.stats # last'.arg[1]) =>
          /\ \A d \in DOMAIN objs : \A i \in 0..(objs[d].size - 1) :
                ValueAt(mem', last'.stats, objs[d], i) =
                    (ValueAt(mem, last'.stats, objs[d], i)
                       + ValueAt(mem, last'.arg[1], objs[d], i)) % Modulus(objs[d])
          /\ mem'[last'.arg[1]] = mem[last'.arg[1]]]_vars

\* Y, holding 10 and 10 20, has been added into X, which held 1 and 1 2
C3_Witness ==
    /\ last.op = "+=" /\ last.stats = "X" /\ last.arg = <<"Y">>
    /\ \E d, e \in DOMAIN objs :
          /\ objs[d].kind = "StatObj" /\ ValueAt(mem, "X", objs[d], 0) = 11
          /\ ValueAt(mem, "Y", objs[d], 0) = 10
          /\ objs[e].kind = "StatArray" /\ ValueAt(mem, "X", objs[e], 0) = 11
          /\ ValueAt(mem, "X", objs[e], 1) = 22
          /\ ValueAt(mem, "Y", objs[e], 1) = 20

\* C4: after arr[i] = v through operator[] with 0 <= i < size, reading the
\* array from the target arena shows v at position i and every other position
\* as it was.
C4_IndexRoundTrip ==
    [][(/\ last'.op = "[]=" /\ fault' = "none"
        /\ last'.arg[1] \in 0..(objs[last'.d].size - 1)) =>
          \A j \in 0..(objs[last'.d].size - 1) :
              ValueAt(mem', last'.stats, objs[last'.d], j) =
                  IF j = last'.arg[1] THEN last'.arg[2]
                  ELSE ValueAt(mem, last'.stats, objs[last'.d], j)]_vars

\* C5: a store through the default target of a descriptor whose target is
\* the arena Y leaves the value of that descriptor in every other arena X
\* as it was.
C5_TargetIsolation ==
    [][\A d \in DOMAIN objs :
          (last'.op \in DefaultStores /\ last'.d = d) =>
              \A x \in Arenas \ {objs[d].default_stats} :
                  \A i \in 0..(objs[d].size - 1) :
                      ValueAt(mem', x, objs[d], i) = ValueAt(mem, x, objs[d], i)]_vars

\* the descriptor was incremented in X, switched to Y and incremented again
C5_Witness ==
    /\ last.op = "a++" /\ last.stats = "Y" /\ Running
    /\ objs[last.d].default_stats = "Y"
    /\ ValueAt(mem, "X", objs[last.d], 0) = 1
    /\ ValueAt(mem, "Y", objs[last.d], 0) = 1

\* C8: operator()(stats) resolves to the storage at stats' base + the
\* descriptor's offset (+ i * sizeof(T) for element i of an array), changes
\* neither the descriptor's target nor its cached pointer, and a store through
\* the default target that follows changes only the arena that is the
\* descriptor's target.
C8_ExplicitArena ==
    [][/\ last'.op \in CallStores =>
             /\ objs' = objs /\ nodes' = nodes
             /\ \A x \in Arenas \ {last'.stats} : mem'[x] = mem[x]
       /\ last'.op = "()++" =>
             /\ last'.ret = <<[stats |-> last'.stats, off |-> objs[last'.d].offset]>>
             /\ ValueAt(mem', last'.stats, objs[last'.d], 0) =
                    (ValueAt(mem, last'.stats, objs[last'.d], 0) + 1)
                        % Modulus(objs[last'.d])
       /\ last'.op = "()[]=" =>
             /\ last'.ret = <<[stats |-> last'.stats,
                               off |-> objs[last'.d].offset
                                         + last'.arg[1] * objs[last'.d].tsize]>>
             /\ ValueAt(mem', last'.stats, objs[last'.d], last'.arg[1]) = last'.arg[2]
       /\ (last.op \in CallStores /\ last'.op \in DefaultStores /\ last'.d = last.d) =>
             \A x \in Arenas \ {objs[last.d].default_stats} : mem'[x] = mem[x]]_vars

\* obj(Y)++ on a descriptor whose target is X
C8_Witness ==
    /\ last.op = "()++" /\ last.stats = "Y" /\ Running
    /\ objs[last.d].default_stats = "X"
    /\ objs[last.d].default_var = [stats |-> "X", off |-> objs[last.d].offset]
    /\ objs[last.d].offset > 0
    /\ ValueAt(mem, "Y", objs[last.d], 0) = 1
    /\ ValueAt(mem, "X", objs[last.d], 0) = 0

\* digits occur in out as consecutive pieces
Emitted(out, digits) ==
    \E k \in 1..Len(out) :
        /\ k + Len(digits) - 1 <= Len(out)
        /\ SubSeq(out, k, k + Len(digits) - 1) = digits

\* C9: dump(destination, arena) of a descriptor, text or YAML, completes and
\* emits the values the arena given holds at the descriptor's offset,
\* whatever the descriptor's own target is.
C9_DumpAnyTarget ==
    last.op \in {"dump_text", "dump_yaml"} =>
        /\ Running
        /\ \A i \in 0..(objs[last.d].size - 1) :
              Emitted(last.out, Dec(ValueAt(mem, last.stats, objs[last.d], i)))

\* the descriptor, or the descriptor operand, has no target
NoTarget(op, d, arg) ==
    \/ objs[d].default_var = NullPtr
    \/ op \in ObjForms /\ objs[arg[1]].default_var = NullPtr

\* C10: ++, --, +, -, *, / (with a literal or a descriptor operand) and
\* operator[] on a descriptor with no target, or with a descriptor operand
\* with no target, abort on an assertion and modify no byte of any arena.
C10_UnsetTargetFatal ==
    [][(/\ last'.op \in UnaryOps \cup BinOps \cup ObjForms \cup {"[]="}
        /\ NoTarget(last'.op, last'.d, last'.arg)) =>
          /\ fault' \in {"assert_default_var", "assert_index"}
          /\ mem' = mem
          /\ wild' = wild]_vars

\* a / b aborted because b, the descriptor operand, has no target
C10_Witness ==
    /\ last.op = "/obj"
    /\ fault = "assert_default_var"
    /\ objs[last.d].default_var # NullPtr
    /\ objs[last.arg[1]].default_var = NullPtr

\* C11: operator[](index) on an array descriptor of count N with a target
\* set aborts for every index outside [0, N), index >= N and index < 0 alike,
\* and returns a reference only for the indices in [0, N).
C11_IndexOutOfBounds ==
    (last.op = "[]=" /\ objs[last.d].default_var # NullPtr) =>
        (fault = "assert_index" <=> last.arg[1] \notin 0..(objs[last.d].size - 1))

\* C12: on a scalar descriptor bound to an arena, every increment, prefix or
\* postfix, raises the stored value by exactly one and every decrement lowers
\* it by exactly one (in the arithmetic of T), and the text dump against the
\* arena reads back the stored value: k increments from 0 read back k.
C12_IncrementCorrect ==
    [][/\ (last'.op \in {"a++", "++a"} /\ objs[last'.d].default_var # NullPtr) =>
             ValueAt(mem', last'.stats, objs[last'.d], 0) =
                 (ValueAt(mem, last'.stats, objs[last'.d], 0) + 1)
                     % Modulus(objs[last'.d])
       /\ (last'.op \in {"a--", "--a"} /\ objs[last'.d].default_var # NullPtr) =>
             ValueAt(mem', last'.stats, objs[last'.d], 0) =
                 (ValueAt(mem, last'.stats, objs[last'.d], 0)
                     + Modulus(objs[last'.d]) - 1) % Modulus(objs[last'.d])
       /\ (last'.op = "dump_text" /\ objs[last'.d].kind = "StatObj") =>
             /\ mem' = mem
             /\ Emitted(last'.out, Dec(ValueAt(mem, last'.stats, objs[last'.d], 0)))]_vars

\* two increments from 0 in a registry of scalars, then the dump reads back 2
C12_Witness ==
    /\ last.op = "dump_text" /\ last.stats = "X"
    /\ \A e \in DOMAIN objs : objs[e].kind = "StatObj"
    /\ objs[last.d].default_stats = "X"
    /\ nwrites = 2
    /\ mem["Y"] = ZeroMem
    /\ ValueAt(mem, "X", objs[last.d], 0) = 2
    /\ Emitted(last.out, <<"2">>)

\* C13: a++ and a-- on a scalar descriptor return the updated value, the
\* value the target arena holds after the operation, as ++a and --a do.
C13_PostfixReturnsUpdated ==
    (last.op \in UnaryOps /\ Running) =>
        last.ret = <<ValueAt(mem, last.stats, objs[last.d], 0)>>

\* the characters of an output, piece by piece: the piece ": " is a colon
\* and a space, a name or a digit stands for itself
RECURSIVE Chars(_)
Chars(out) ==
    IF out = <<>> THEN <<>>
    ELSE (IF Head(out) = ": " THEN <<":", " ">> ELSE <<Head(out)>>) \o Chars(Tail(out))

\* the values of elements i .. size-1 of o in arena a, separated by single
\* spaces, no separator after the last
RECURSIVE SpaceSeparated(_, _, _)
SpaceSeparated(o, a, i) ==
    IF i = o.size - 1 THEN Dec(ValueAt(mem, a, o, i))
    ELSE Dec(ValueAt(mem, a, o, i)) \o <<" ">> \o SpaceSeparated(o, a, i + 1)

\* C14: the text dump of a scalar leaf is exactly name, colon, one space,
\* value, newline; that of an array leaf of count N is name, colon, one
\* space, the N values in index order separated by single spaces with no
\* separator after the last, newline.
C14_TextDumpFormat ==
    last.op = "dump_text" =>
        Chars(last.out) =
            <<Name(last.d), ":", " ">>
                \o SpaceSeparated(objs[last.d], last.stats, 0) \o <<"\n">>

\* the members of a set of numbers in ascending order
RECURSIVE Ascending(_)
Ascending(S) ==
    IF S = {} THEN <<>>
    ELSE LET m == CHOOSE x \in S : \A y \in S : x <= y
         IN <<m>> \o Ascending(S \ {m})

\* descriptors and nodes are numbered as they are constructed, and each one
\* registers with its parent in its constructor: the registration order under
\* a node is the ascending order of the numbers
LeafNamesOf(n) ==
    LET ds == Ascending({d \in DOMAIN objs : objs[d].parent = n})
    IN [i \in DOMAIN ds |-> Name(ds[i])]

RECURSIVE PreOrder(_)
RECURSIVE PreOrderAll(_)
PreOrder(n) ==
    <<NodeName(n)>> \o LeafNamesOf(n)
        \o PreOrderAll(Ascending({c \in DOMAIN nodes : nodes[c].parent = n}))
PreOrderAll(cs) ==
    IF cs = <<>> THEN <<>> ELSE PreOrder(Head(cs)) \o PreOrderAll(Tail(cs))

\* the names of nodes and leaves in an output, in the order of the output
AllNames == {Name(d) : d \in DOMAIN objs} \cup {NodeName(n) : n \in DOMAIN nodes}
NamesIn(out) == SelectSeq(out, LAMBDA x : x \in AllNames)

\* C15: a node's dump, text or YAML, names the node, then the node's leaves
\* in registration order, then each child node's dump in registration order
\* (depth first, pre-order), whatever target switches came before the dump.
C15_DumpOrder ==
    (last.op \in {"node_dump_text", "node_dump_yaml"} /\ Running) =>
        NamesIn(last.out) = PreOrder(last.d)

\* the root was dumped after target switches; the leaf constructed second
\* hangs on the root and comes before the two child nodes and the first leaf
C15_Witness ==
    /\ last.op = "node_dump_text" /\ last.d = 1 /\ Running
    /\ NamesIn(last.out) = <<"", "stat2", "node2", "node3", "stat1">>
    /\ objs[1].default_stats = "Y"
    /\ objs[2].default_stats = "X"

DumpOps == {"dump_text", "dump_yaml", "node_dump_text", "node_dump_yaml"}

\* what the dump op of descriptor or node d against arena a writes in the
\* current state
DumpOut(op, d, a) ==
    CASE op = "dump_text" -> LeafText(d, a)
      [] op = "dump_yaml" -> LeafYaml(d, a)
      [] op = "node_dump_text" -> NodeText(nodes, d, a)
      [] op = "node_dump_yaml" -> NodeYaml(nodes, d, a)

\* C16: a dump changes no arena value, no descriptor's or node's target and
\* not the offset cursor; its output is determined by the arena, the tree and
\* the descriptors, so a second dump of the same arena that follows with no
\* mutation in between writes the same output.
C16_DumpIdempotent ==
    [][last'.op \in DumpOps =>
          /\ mem' = mem /\ wild' = wild
          /\ objs' = objs /\ nodes' = nodes
          /\ stat_offset' = stat_offset
          /\ fault' = "none" => last'.out = DumpOut(last'.op, last'.d, last'.stats)
          /\ (/\ fault' = "none" /\ last.op = last'.op /\ last.d = last'.d
              /\ last.stats = last'.stats) => last'.out = last.out]_vars

\* the whole tree was dumped as YAML against X, which holds 1 and 1 2
C16_Witness ==
    /\ last.op = "node_dump_yaml" /\ last.d = 1 /\ last.stats = "X" /\ Running
    /\ Emitted(last.out, <<"Item", "1", "Item", "2">>)
    /\ \E d \in DOMAIN objs :
          /\ objs[d].kind = "StatArray"
          /\ ValueAt(mem, "X", objs[d], 0) = 1
          /\ ValueAt(mem, "X", objs[d], 1) = 2

\* C17: over any sequence of get_offset(size) calls, size a signed int, the
\* cursor never decreases, each call returns the cursor as it was before the
\* call, and the cursor after the call is the returned offset plus size.
C17_CursorMonotonic ==
    [][(last'.op = "get_offset" /\ fault' = "none") =>
          /\ stat_offset' >= stat_offset
          /\ last'.ret = <<stat_offset>>
          /\ stat_offset' = last'.ret[1] + last'.arg[1]]_vars

\* C18: operator+ and operator- with a literal v on a scalar descriptor
\* bound to an arena store nothing, so add(v) followed by subtract(v) leaves
\* the value stored at the descriptor's offset and the dump against the arena
\* as they were; the sum returned, less v, is the stored value again.
C18_AddSubtractRoundTrip ==
    [][(last'.op \in {"+", "-"} /\ objs[last'.d].default_var # NullPtr) =>
          /\ mem' = mem /\ objs' = objs /\ nodes' = nodes
          /\ \A d \in DOMAIN objs, a \in Arenas :
                (d = last'.d /\ a = last'.stats) => LeafText(d, a)' = LeafText(d, a)
          /\ last'.op = "+" =>
                (last'.ret[1] + Modulus(objs[last'.d]) - last'.arg[1])
                     % Modulus(objs[last'.d])
                  = ValueAt(mem, last'.stats, objs[last'.d], 0)
          /\ last'.op = "-" =>
                (last'.ret[1] + last'.arg[1]) % Modulus(objs[last'.d])
                  = ValueAt(mem, last'.stats, objs[last'.d], 0)]_vars

\* obj - 2 was computed on a descriptor whose arena X holds 1
C18_Witness ==
    /\ last.op = "-" /\ last.arg = <<2>> /\ last.stats = "X" /\ Running
    /\ objs[last.d].tsize = 2
    /\ ValueAt(mem, "X", objs[last.d], 0) = 1
    /\ last.ret = <<65535>>

\* C19: after any sequence of descriptor constructions and leaf-level and
\* node-level set_default_stats calls, every descriptor's default_var is its
\* target arena's base + its offset when it has a target and null when it has
\* none, and the offset of a descriptor never changes once it is constructed.
C19_AddressCoherence ==
    [][/\ \A d \in DOMAIN objs' :
             objs'[d].offset # NoOffset =>
                 objs'[d].default_var =
                     IF objs'[d].default_stats \in Arenas
                     THEN [stats |-> objs'[d].default_stats, off |-> objs'[d].offset]
                     ELSE NullPtr
       /\ \A d \in DOMAIN objs :
             objs[d].offset # NoOffset =>
                 /\ d \in DOMAIN objs'
                 /\ objs'[d].offset = objs[d].offset]_vars

\* a descriptor away from offset 0 was switched to Y below a node whose
\* target is X, next to a descriptor that has no target
C19_Witness ==
    \E d, e \in DOMAIN objs :
        /\ objs[d].offset > 0
        /\ objs[d].default_stats = "Y"
        /\ objs[d].default_var = [stats |-> "Y", off |-> objs[d].offset]
        /\ nodes[objs[d].parent].default_stats = "X"
        /\ objs[e].offset = 0
        /\ objs[e].default_stats = NULL
        /\ objs[e].default_var = NullPtr

\* C20: a write through a descriptor's default target (++ or -- of a scalar,
\* operator[](i) of an array with 0 <= i < count) changes only bytes of the
\* descriptor's own range [offset, offset + size) of the target arena: no
\* other descriptor's value, no other arena, and no byte at or beyond
\* STATS_SIZE.
C20_WriteConfinement ==
    [][(/\ last'.op \in DefaultStores
        /\ objs[last'.d].default_var # NullPtr
        /\ last'.op = "[]=" => last'.arg[1] \in 0..(objs[last'.d].size - 1)) =>
          /\ fault' = "none"
          /\ wild' = wild
          /\ \A a \in Arenas : \A b \in DOMAIN mem'[a] \cup DOMAIN mem[a] :
                Byte(mem'[a], b) # Byte(mem[a], b) =>
                    /\ a = objs[last'.d].default_stats
                    /\ b >= objs[last'.d].offset
                    /\ b < objs[last'.d].offset + SizeOf(objs[last'.d])]_vars

\* C21: when each of two contexts routes the target of a shared descriptor
\* to its own arena before it increments, then under every interleaving of
\* the contexts' (set target; increment) steps each increment lands in the
\* arena of the context that issued it and leaves the other arena unchanged.
C21_ContextIsolation ==
    [][\A c \in Ctxs :
          (routed[c] # 0 /\ routed'[c] = 0) =>
              /\ fault' = "none"
              /\ ValueAt(mem', Own(c), objs[routed[c]], 0) =
                     (ValueAt(mem, Own(c), objs[routed[c]], 0) + 1)
                         % Modulus(objs[routed[c]])
              /\ \A a \in Arenas \ {Own(c)} : mem'[a] = mem[a]]_vars

====
